---------------------------- MODULE Spec2Model ----------------------------
(***************************************************************************)
(* A model of scripts/dumpSG.py: the build pass inspect_tree, the filter   *)
(* filter_xAOD_objects, the size roll-up update_sizes and the emission     *)
(* dump_xAOD_objects, as they are sequenced by the __main__ block.         *)
(*                                                                         *)
(* Python strings are modelled as sequences of one-character strings, so   *)
(* that the regular expressions of inspect_tree are computed character by  *)
(* character.  Python's None is the one-element sequence None, which no    *)
(* character string equals because its element is not a single character.  *)
(***************************************************************************)
EXTENDS Integers, Sequences, FiniteSets, TLC

(***************************************************************************)
(* String literals used by the code, and by the leaves the model draws.    *)
(***************************************************************************)
None == <<"None">>

sAux == <<"A","u","x">>
sAuxDot == <<"A","u","x",".">>
sAuxDynDot == <<"A","u","x","D","y","n",".">>
sVectorLt == <<"v","e","c","t","o","r","<">>
sGt == <<">">>
sSpaceGt == <<" ",">">>
sSpaceStar == <<" ","*">>
sLink == <<"L","i","n","k">>
sbtagging == <<"b","t","a","g","g","i","n","g">>
sStar == <<"*">>

Digits == {"0","1","2","3","4","5","6","7","8","9"}
UpperCase == <<"A","B","C","D","E","F","G","H","I","J","K","L","M",
               "N","O","P","Q","R","S","T","U","V","W","X","Y","Z">>
LowerCase == <<"a","b","c","d","e","f","g","h","i","j","k","l","m",
               "n","o","p","q","r","s","t","u","v","w","x","y","z">>

(***************************************************************************)
(* Generic string helpers (str methods of Python).                         *)
(***************************************************************************)
Max(S) == CHOOSE m \in S : \A k \in S : k <= m
Min(S) == CHOOSE m \in S : \A k \in S : m <= k

\* s[i:] with i counted in characters already consumed
Drop(s, i) == SubSeq(s, i + 1, Len(s))
\* s[:i]
Take(s, i) == SubSeq(s, 1, i)

\* s.startswith(p) at offset i (0-based): s[i:i+len(p)] == p
MatchAt(s, i, p) == /\ i + Len(p) <= Len(s)
                    /\ SubSeq(s, i + 1, i + Len(p)) = p

\* p in s
Contains(s, p) == \E i \in 0..Len(s) : MatchAt(s, i, p)

\* s.endswith(p)
EndsWith(s, p) == Len(s) >= Len(p) /\ MatchAt(s, Len(s) - Len(p), p)

\* str.lower(), one character
LowerChar(c) == IF \E i \in 1..26 : UpperCase[i] = c
                THEN LowerCase[CHOOSE i \in 1..26 : UpperCase[i] = c]
                ELSE c

\* str.lower()
Lower(s) == [i \in 1..Len(s) |-> LowerChar(s[i])]

\* s.replace(p, ''): one left-to-right pass over non-overlapping occurrences
RECURSIVE Replace(_, _)
Replace(s, p) ==
  IF Len(s) = 0 THEN <<>>
  ELSE IF MatchAt(s, 0, p) THEN Replace(Drop(s, Len(p)), p)
  ELSE <<s[1]>> \o Replace(Drop(s, 1), p)

\* number of leading digits of s (the greedy \d+ of '_v\d+')
RECURSIVE LeadingDigits(_)
LeadingDigits(s) ==
  IF Len(s) > 0 /\ s[1] \in Digits THEN 1 + LeadingDigits(Drop(s, 1)) ELSE 0

NoColon(s) == \A i \in 1..Len(s) : s[i] # ":"


(***************************************************************************)
(* The regular expressions of inspect_tree.  A search result is the record *)
(* [matched, groups]; groups is the tuple that .groups() returns.          *)
(***************************************************************************)
Miss == [matched |-> FALSE, groups |-> <<>>]
Hit(gs) == [matched |-> TRUE, groups |-> gs]

\* re.compile('^([^:]*)(?<!\.)$').search(elName)
xAOD_Container_Name(elName) ==
  IF NoColon(elName) /\ ~EndsWith(elName, <<".">>)
  THEN Hit(<<elName>>) ELSE Miss

\* xAOD_AuxContainer_Name for the pattern '^([^.]*)Aux\.$', whose group
\* takes no '.'
xAOD_AuxContainer_NameNoDot(elName) ==
  IF /\ EndsWith(elName, sAuxDot)
     /\ \A i \in 1..(Len(elName) - Len(sAuxDot)) : elName[i] # "."
  THEN Hit(<<Take(elName, Len(elName) - Len(sAuxDot))>>) ELSE Miss

\* re.compile('(.*)Aux\.$').search(elName): the pattern ends at the end of
\* the name, so the greedy group is everything before the last four characters
xAOD_AuxContainer_Name(elName) ==
  IF EndsWith(elName, sAuxDot)
  THEN Hit(<<Take(elName, Len(elName) - Len(sAuxDot))>>) ELSE Miss

\* the offsets i at which `sep` occurs in elName followed by one or more
\* characters other than ':' up to the end of the name
SplitsAt(elName, sep) ==
  {i \in 0..Len(elName) :
     /\ MatchAt(elName, i, sep)
     /\ i + Len(sep) < Len(elName)
     /\ NoColon(Drop(elName, i + Len(sep)))}

\* '(.*)<sep>([^:]+)$' searched from offset 0: the greedy first group backs
\* off from the end of the name, so the last usable occurrence of sep wins
GreedySplit(elName, sep) ==
  IF SplitsAt(elName, sep) = {} THEN Miss
  ELSE LET i == Max(SplitsAt(elName, sep))
       IN  Hit(<<Take(elName, i), Drop(elName, i + Len(sep))>>)

\* re.compile('(.*)Aux\.([^:]+)$').search(elName)
xAOD_Container_Prop(elName) == GreedySplit(elName, sAuxDot)

\* re.compile('(.*)AuxDyn\.([^:]+)$').search(elName)
xAOD_Container_Attr(elName) == GreedySplit(elName, sAuxDynDot)

\* the lengths k >= 1 of the lazy group (.+?) after 'vector<' for which the
\* rest of the type is ' ?>' up to the end
WrappedLengths(rest) ==
  {k \in 1..Len(rest) : Drop(rest, k) = sGt \/ Drop(rest, k) = sSpaceGt}

\* re.compile('^(vector<)?(.+?)(?(1)(?: ?>))$').search(elType): with group 1
\* taken the lazy group 2 grows until ' ?>' closes the string; failing that,
\* group 1 is given up and group 2 is the whole non-empty string
xAOD_Type_Name(elType) ==
  IF MatchAt(elType, 0, sVectorLt)
     /\ WrappedLengths(Drop(elType, Len(sVectorLt))) # {}
  THEN LET rest == Drop(elType, Len(sVectorLt))
       IN  Hit(<<sVectorLt, Take(rest, Min(WrappedLengths(rest)))>>)
  ELSE IF Len(elType) >= 1 THEN Hit(<<None, elType>>)
  ELSE Miss

\* re.compile('_v\d+').sub('', s)
RECURSIVE xAOD_remove_version(_)
xAOD_remove_version(s) ==
  IF Len(s) = 0 THEN <<>>
  ELSE IF MatchAt(s, 0, <<"_","v">>) /\ LeadingDigits(Drop(s, 2)) >= 1
       THEN xAOD_remove_version(Drop(s, 2 + LeadingDigits(Drop(s, 2))))
  ELSE <<s[1]>> \o xAOD_remove_version(Drop(s, 1))

\* the offsets of a '<' whose next angle bracket is a '>'
InnerStarts(s) ==
  {i \in 1..Len(s) :
     /\ s[i] = "<"
     /\ \E j \in (i+1)..Len(s) :
          /\ s[j] = ">"
          /\ \A k \in (i+1)..(j-1) : s[k] \notin {"<", ">"}}

\* re.compile('<([^<>]*)>').search(s): the leftmost such group
xAOD_Grab_Inner_Type(s) ==
  IF InnerStarts(s) = {} THEN Miss
  ELSE LET i == Min(InnerStarts(s))
           j == Min({k \in (i+1)..Len(s) : s[k] = ">"})
       IN  Hit(<<SubSeq(s, i + 1, j - 1)>>)


(***************************************************************************)
(* The hierarchy: a function from container names to container            *)
(* dictionaries, as the defaultdict of inspect_tree.                       *)
(***************************************************************************)

\* the default value of the defaultdict
NewContainer ==
  [prop |-> <<>>, attr |-> <<>>, type |-> None, has_aux |-> FALSE,
   rootname |-> None, totbytes |-> 0, filebytes |-> 0]

\* xAOD_Objects[container], read: a missing key reads as the default
Get(objs, container) ==
  IF container \in DOMAIN objs THEN objs[container] ELSE NewContainer

\* xAOD_Objects[container] = rec
Put(objs, container, rec) ==
  [k \in DOMAIN objs \cup {container} |-> IF k = container THEN rec ELSE objs[k]]

\* the dictionary appended to 'prop' or 'attr'
Field(name, type, el) ==
  [name |-> name, type |-> type, rootname |-> el.name,
   totbytes |-> el.totbytes, filebytes |-> el.filebytes]

\* Python's `a or b` on a value that is None or a string
PyOr(a, b) == IF a = None \/ a = <<>> THEN b ELSE a

\* NormalizedType without the removal of 'Aux'
NormalizedTypeKeepsAux(elType) ==
  xAOD_remove_version(xAOD_Type_Name(elType).groups[2])

\* elType after line 177, for a declared type the grammar matches
NormalizedType(elType) ==
  xAOD_remove_version(Replace(xAOD_Type_Name(elType).groups[2], sAux))

\* SetAux without the has_aux assignment
SetAuxNoFlag(objs, el, elType) ==
  LET container == xAOD_AuxContainer_Name(el.name).groups[1]
      c == Get(objs, container)
  IN  Put(objs, container,
          [c EXCEPT !.type = elType, !.rootname = el.name,
                    !.totbytes = @ + el.totbytes,
                    !.filebytes = @ + el.filebytes])

\* the aux-root branch
SetAux(objs, el, elType) ==
  LET container == xAOD_AuxContainer_Name(el.name).groups[1]
      c == Get(objs, container)
  IN  Put(objs, container,
          [c EXCEPT !.type = elType, !.has_aux = TRUE, !.rootname = el.name,
                    !.totbytes = @ + el.totbytes,
                    !.filebytes = @ + el.filebytes])

\* the property branch
AddProp(objs, el, elType) ==
  LET g == xAOD_Container_Prop(el.name).groups
      c == Get(objs, g[1])
  IN  Put(objs, g[1], [c EXCEPT !.prop = Append(@, Field(g[2], elType, el))])

\* BtaggingType without the fallback to the normalized type
BtaggingTypeAlwaysPointer(elType) ==
  IF xAOD_Grab_Inner_Type(elType).matched
  THEN xAOD_Grab_Inner_Type(elType).groups[1] \o sSpaceStar
  ELSE elType \o sSpaceStar

\* the type given to a b-tagging attribute
BtaggingType(elType) ==
  IF xAOD_Grab_Inner_Type(elType).matched
  THEN xAOD_Grab_Inner_Type(elType).groups[1] \o sSpaceStar
  ELSE elType

\* AddAttr with the inner type searched in el.type, the declared type
AddAttrInnerFromDeclared(objs, el, elType) ==
  LET g == xAOD_Container_Attr(el.name).groups
      c == Get(objs, g[1])
      btaggingType == xAOD_Grab_Inner_Type(el.type)
  IN  IF Contains(Lower(g[2]), sbtagging)
      THEN Put(objs, g[1],
               [c EXCEPT !.prop =
                  Append(@, Field(Replace(g[2], sLink),
                                  IF btaggingType.matched
                                  THEN btaggingType.groups[1] \o sSpaceStar
                                  ELSE elType, el))])
      ELSE Put(objs, g[1],
               [c EXCEPT !.attr = Append(@, Field(g[2], elType, el))])

\* AddAttr with a case-sensitive test for 'btagging'
AddAttrCaseSensitive(objs, el, elType) ==
  LET g == xAOD_Container_Attr(el.name).groups
      c == Get(objs, g[1])
  IN  IF Contains(g[2], sbtagging)
      THEN Put(objs, g[1],
               [c EXCEPT !.prop =
                  Append(@, Field(Replace(g[2], sLink), BtaggingType(elType), el))])
      ELSE Put(objs, g[1],
               [c EXCEPT !.attr = Append(@, Field(g[2], elType, el))])

\* the attribute branch, with the b-tagging special case
AddAttr(objs, el, elType) ==
  LET g == xAOD_Container_Attr(el.name).groups
      c == Get(objs, g[1])
  IN  IF Contains(Lower(g[2]), sbtagging)
      THEN Put(objs, g[1],
               [c EXCEPT !.prop =
                  Append(@, Field(Replace(g[2], sLink), BtaggingType(elType), el))])
      ELSE Put(objs, g[1],
               [c EXCEPT !.attr = Append(@, Field(g[2], elType, el))])

\* the bare container branch
SetContainer(objs, el, elType) ==
  LET container == xAOD_Container_Name(el.name).groups[1]
      c == Get(objs, container)
  IN  Put(objs, container,
          [c EXCEPT !.type = PyOr(@, elType), !.rootname = PyOr(@, el.name),
                    !.totbytes = @ + el.totbytes,
                    !.filebytes = @ + el.filebytes])

\* Classify with the bare container pattern tried first
ClassifyRootFirst(objs, el, elType) ==
  IF xAOD_Container_Name(el.name).matched THEN SetContainer(objs, el, elType)
  ELSE IF xAOD_AuxContainer_Name(el.name).matched THEN SetAux(objs, el, elType)
  ELSE IF xAOD_Container_Prop(el.name).matched THEN AddProp(objs, el, elType)
  ELSE IF xAOD_Container_Attr(el.name).matched THEN AddAttr(objs, el, elType)
  ELSE objs

\* one iteration of the loop of inspect_tree once elType is normalized
Classify(objs, el, elType) ==
  IF xAOD_AuxContainer_Name(el.name).matched THEN SetAux(objs, el, elType)
  ELSE IF xAOD_Container_Prop(el.name).matched THEN AddProp(objs, el, elType)
  ELSE IF xAOD_Container_Attr(el.name).matched THEN AddAttr(objs, el, elType)
  ELSE IF xAOD_Container_Name(el.name).matched THEN SetContainer(objs, el, elType)
  ELSE objs

\* the hierarchy the loop of inspect_tree has built from objs once it has
\* gone through leaves, each with a declared type the grammar matches
RECURSIVE BuildFrom(_, _)
BuildFrom(objs, leaves) ==
  IF Len(leaves) = 0 THEN objs
  ELSE BuildFrom(Classify(objs, leaves[1], NormalizedType(leaves[1].type)),
                 Tail(leaves))

\* the value inspect_tree returns for a tree with these leaves
inspect_tree(leaves) == BuildFrom(<<>>, leaves)


(***************************************************************************)
(* Branch names and declared types of the leaves the model draws.          *)
(***************************************************************************)
\* 'Foo'
nFoo == <<"F","o","o">>
\* 'Bar'
nBar == <<"B","a","r">>
\* 'FooAux.'
nFooAux == <<"F","o","o","A","u","x",".">>
\* 'BarAux.'
nBarAux == <<"B","a","r","A","u","x",".">>
\* 'BarAux.pt'
nBarAuxPt == <<"B","a","r","A","u","x",".","p","t">>
\* 'FooAux.pt'
nFooAuxPt == <<"F","o","o","A","u","x",".","p","t">>
\* 'FooAux.eta'
nFooAuxEta == <<"F","o","o","A","u","x",".","e","t","a">>
\* 'FooAux.btaggingLink'
nFooAuxBtaggingLink == <<"F","o","o","A","u","x",".","b","t","a","g","g","i","n","g","L","i","n","k">>
\* 'FooAuxDyn.Tau1'
nFooDynTau1 == <<"F","o","o","A","u","x","D","y","n",".","T","a","u","1">>
\* 'FooAuxDyn.btaggingLink'
nFooDynBtaggingLink == <<"F","o","o","A","u","x","D","y","n",".","b","t","a","g","g","i","n","g","L","i","n","k">>
\* 'FooAuxDyn.btaggingLink_'
nFooDynBtaggingLinkU == <<"F","o","o","A","u","x","D","y","n",".","b","t","a","g","g","i","n","g","L","i","n","k","_">>
\* 'FooAuxDyn.LinkBTaggingLink'
nFooDynBTagging == <<"F","o","o","A","u","x","D","y","n",".","L","i","n","k","B","T","a","g","g","i","n","g","L","i","n","k">>
\* 'FooAuxDyn.btagLinkging'
nFooDynBtagLinkging == <<"F","o","o","A","u","x","D","y","n",".","b","t","a","g","L","i","n","k","g","i","n","g">>
\* 'FooAuxDyn.btaggingLiLinknk'
nFooDynBtaggingLiLinknk == <<"F","o","o","A","u","x","D","y","n",".","b","t","a","g","g","i","n","g","L","i","L","i","n","k","n","k">>
\* 'bar'
nBarLower == <<"b","a","r">>
\* 'FooAux.Pt'
nFooAuxPtUpper == <<"F","o","o","A","u","x",".","P","t">>
\* 'Foo.'
nFooDot == <<"F","o","o",".">>
\* 'Foo:x'
nFooColon == <<"F","o","o",":","x">>
\* 'FooAux.a:b'
nFooAuxColon == <<"F","o","o","A","u","x",".","a",":","b">>
\* 'FooAux.barAux.'
nFooAuxBarAux == <<"F","o","o","A","u","x",".","b","a","r","A","u","x",".">>
\* 'FooAuxDyn.xAux.pt'
nFooDynXAuxPt == <<"F","o","o","A","u","x","D","y","n",".","x","A","u","x",".","p","t">>
\* 'xAOD::JetContainer_v1'
tJetContainer == <<"x","A","O","D",":",":","J","e","t","C","o","n","t","a","i","n","e","r","_","v","1">>
\* 'xAOD::JetAuxContainer_v1'
tJetAuxContainer == <<"x","A","O","D",":",":","J","e","t","A","u","x","C","o","n","t","a","i","n","e","r","_","v","1">>
\* 'xAOD::MuonContainer_v1'
tMuonContainer == <<"x","A","O","D",":",":","M","u","o","n","C","o","n","t","a","i","n","e","r","_","v","1">>
\* 'DataVector<xAOD::Jet_v1>'
tDataVectorJet == <<"D","a","t","a","V","e","c","t","o","r","<","x","A","O","D",":",":","J","e","t","_","v","1",">">>
\* 'vector<float>'
tVectorFloat == <<"v","e","c","t","o","r","<","f","l","o","a","t",">">>
\* 'vector<float >'
tVectorFloatSp == <<"v","e","c","t","o","r","<","f","l","o","a","t"," ",">">>
\* 'vector<float'
tVectorFloatOpen == <<"v","e","c","t","o","r","<","f","l","o","a","t">>
\* 'vector<ElementLink<DataVector<xAOD::BTagging_v1> > >'
tBTagLink == <<"v","e","c","t","o","r","<","E","l","e","m","e","n","t","L","i","n","k","<","D","a","t","a","V","e","c","t","o","r","<","x","A","O","D",":",":","B","T","a","g","g","i","n","g","_","v","1",">"," ",">"," ",">">>
\* 'pair<a_v1><b>'
tPair == <<"p","a","i","r","<","a","_","v","1",">","<","b",">">>
\* 'a'
tLowerA == <<"a">>
\* 'B'
tUpperB == <<"B">>
\* 'Int_t'
tInt == <<"I","n","t","_","t">>
\* 'Aux'
tAux == <<"A","u","x">>
\* 'AAuxux_v12'
tAAuxux == <<"A","A","u","x","u","x","_","v","1","2">>
\* '_v1'
tV1 == <<"_","v","1">>
\* ''
tEmpty == <<>>


\* one leaf of the tree: GetBranch().GetName(), GetTypeName(),
\* GetBranch().GetTotalSize(), GetBranch().GetZipBytes()
Leaf(name, type, totbytes, filebytes) ==
  [name |-> name, type |-> type, totbytes |-> totbytes, filebytes |-> filebytes]

\* the leaves a tree of the pipeline specification is made of
TreeLeaves ==
  { Leaf(nFoo, tJetContainer, 7, 5),
    Leaf(nFooAux, tJetAuxContainer, 4, 3),
    Leaf(nFooAuxPt, tVectorFloat, 12, 10),
    Leaf(nFooAuxEta, tVectorFloat, 24, 20),
    Leaf(nFooDynTau1, tVectorFloat, 50, 40),
    Leaf(nBar, tMuonContainer, 100, 80),
    Leaf(nBarAuxPt, tVectorFloat, 200, 160),
    Leaf(nFooColon, tEmpty, 1, 1),
    Leaf(nBarAux, tEmpty, 1, 1) }

\* the leaves a tree of the build-pass specification is made of
LeafPool ==
  { Leaf(nFoo, tJetContainer, 7, 5),
    Leaf(nFoo, tInt, 1, 1),
    Leaf(nFoo, tEmpty, 1, 1),
    Leaf(nBar, tAAuxux, 100, 80),
    Leaf(nFooAux, tDataVectorJet, 4, 3),
    Leaf(nFooAux, tJetAuxContainer, 6, 2),
    Leaf(nFooAux, tAux, 1, 1),
    Leaf(nBarAux, tJetAuxContainer, 9, 8),
    Leaf(nFooAuxPt, tVectorFloat, 12, 10),
    Leaf(nFooAuxPt, tVectorFloatSp, 13, 11),
    Leaf(nFooAuxEta, tV1, 24, 20),
    Leaf(nFooAuxBtaggingLink, tBTagLink, 2, 1),
    Leaf(nFooDynTau1, tVectorFloat, 50, 40),
    Leaf(nFooDynTau1, tVectorFloatOpen, 51, 41),
    Leaf(nFooDynBtaggingLink, tBTagLink, 30, 20),
    Leaf(nFooDynBtaggingLink, tVectorFloat, 31, 21),
    Leaf(nFooDynBtaggingLinkU, tInt, 32, 22),
    Leaf(nFooDynBtaggingLink, tPair, 36, 26),
    Leaf(nFooDynBTagging, tDataVectorJet, 33, 23),
    Leaf(nFooDynBtagLinkging, tVectorFloat, 34, 24),
    Leaf(nFooDynBtaggingLiLinknk, tInt, 35, 25),
    Leaf(nFooDot, tInt, 1, 1),
    Leaf(nFooColon, tInt, 1, 1),
    Leaf(nFooColon, tEmpty, 1, 1),
    Leaf(nFooAuxColon, tInt, 1, 1),
    Leaf(nFooAuxBarAux, tInt, 5, 5),
    Leaf(nFooDynXAuxPt, tInt, 6, 6) }

\* the leaves a tree of the report specification is made of: types and
\* names that sort differently by case, a type that normalizes to '', and
\* Fields of which one has a link type
ReportLeaves ==
  { Leaf(nFoo, tLowerA, 7, 5),
    Leaf(nBarLower, tUpperB, 3, 2),
    Leaf(nBarLower, tLowerA, 4, 3),
    Leaf(nFooAux, tAux, 1, 1),
    Leaf(nFooAuxPtUpper, tVectorFloat, 12, 10),
    Leaf(nFooAuxBtaggingLink, tBTagLink, 2, 1),
    Leaf(nFooDynTau1, tVectorFloat, 50, 40) }

(***************************************************************************)
(* filter_xAOD_objects and update_sizes.                                   *)
(***************************************************************************)

\* re.compile(fnmatch.translate(pat)).match(s) for a pattern made of '*',
\* '?' and literal characters ('[' is not drawn by the model): '*' is '.*',
\* '?' is '.', and the translation is closed by \Z, so the whole of s is matched
RECURSIVE fnmatch(_, _)
fnmatch(pat, s) ==
  IF Len(pat) = 0 THEN Len(s) = 0
  ELSE IF pat[1] = "*"
       THEN fnmatch(Tail(pat), s) \/ (Len(s) > 0 /\ fnmatch(pat, Tail(s)))
  ELSE IF pat[1] = "?"
       THEN Len(s) > 0 /\ fnmatch(Tail(pat), Tail(s))
  ELSE Len(s) > 0 /\ s[1] = pat[1] /\ fnmatch(Tail(pat), Tail(s))

\* the command-line values filter_xAOD_objects reads, with the other options
\* of the parser at their defaults: no --report, no --merge-report, no
\* --size, and -f pretty
Args(name_regex, type_regex, has_aux, list_properties, list_attributes) ==
  [container_name_regex |-> name_regex, container_type_regex |-> type_regex,
   has_aux |-> has_aux, list_properties |-> list_properties,
   list_attributes |-> list_attributes,
   make_report |-> FALSE, merge_report |-> FALSE, make_size_report |-> FALSE,
   output_format |-> "pretty"]

\* the argparse defaults
DefaultArgs == Args(sStar, sStar, FALSE, FALSE, FALSE)

\* the globs the model draws: '*', 'F?o', 'xAOD::Jet*'
NameGlobs == {sStar, <<"F","?","o">>}
TypeGlobs == {sStar, <<"x","A","O","D",":",":","J","e","t","*">>}

ArgsPool ==
  {Args(n, t, a, p, q) : n \in NameGlobs, t \in TypeGlobs,
                         a \in BOOLEAN, p \in BOOLEAN, q \in BOOLEAN}

\* the command lines of the report specification: every container, with
\* and without --prop and --attr
ReportArgs ==
  {Args(sStar, sStar, FALSE, p, q) : p \in BOOLEAN, q \in BOOLEAN}

\* KeepKey with `prop in` for `prop not in`
KeepKeyInverted(prop, a) ==
  \/ a.list_properties /\ prop = "prop"
  \/ a.list_attributes /\ prop = "attr"
  \/ prop \in {"prop", "attr"}

\* the condition on the keys of a container in the inner comprehension
KeepKey(prop, a) ==
  \/ a.list_properties /\ prop = "prop"
  \/ a.list_attributes /\ prop = "attr"
  \/ prop \notin {"prop", "attr"}

\* KeepContainer with `not args.has_aux and` for `not args.has_aux or`
KeepContainerAuxAnd(k, v, a) ==
  /\ fnmatch(a.container_name_regex, k)
  /\ fnmatch(a.container_type_regex, v.type)
  /\ (~a.has_aux /\ v.has_aux)

\* the condition on a container in the outer comprehension, when it can be
\* evaluated
KeepContainer(k, v, a) ==
  /\ fnmatch(a.container_name_regex, k)
  /\ fnmatch(a.container_type_regex, v.type)
  /\ (~a.has_aux \/ v.has_aux)

\* the comprehension raises: a container that passes the name glob has no
\* 'type' key (KeyError) or its type is None (re.match of None: TypeError),
\* or has passed both globs and has no 'has_aux' key while --has_aux is set
FilterRaises(objs, a) ==
  \E k \in DOMAIN objs :
    /\ fnmatch(a.container_name_regex, k)
    /\ \/ "type" \notin DOMAIN objs[k]
       \/ objs[k].type = None
       \/ /\ fnmatch(a.container_type_regex, objs[k].type)
          /\ a.has_aux
          /\ "has_aux" \notin DOMAIN objs[k]

\* the value filter_xAOD_objects returns when it does not raise
filter_xAOD_objects(objs, a) ==
  LET kept == {k \in DOMAIN objs : KeepContainer(k, objs[k], a)}
  IN  [k \in kept |->
         [prop \in {q \in DOMAIN objs[k] : KeepKey(q, a)} |-> objs[k][prop]]]

\* reduce(lambda a,d: a+d.get(key, 0), fields, 0)
RECURSIVE SumBytes(_, _)
SumBytes(fields, key) ==
  IF Len(fields) = 0 THEN 0
  ELSE (IF key \in DOMAIN fields[1] THEN fields[1][key] ELSE 0)
       + SumBytes(Tail(fields), key)

\* Elements.get('prop', []) + Elements.get('attr', [])
Children(Elements) ==
  (IF "prop" \in DOMAIN Elements THEN Elements.prop ELSE <<>>)
  \o (IF "attr" \in DOMAIN Elements THEN Elements.attr ELSE <<>>)

\* the hierarchy after update_sizes
update_sizes(objs) ==
  [k \in DOMAIN objs |->
     [objs[k] EXCEPT
        !.totbytes = @ + SumBytes(Children(objs[k]), "totbytes"),
        !.filebytes = @ + SumBytes(Children(objs[k]), "filebytes")]]


(***************************************************************************)
(* dump_pretty: the text of the output file in the pretty format.          *)
(***************************************************************************)
\* the characters of the names and types in the order of their codes, which
\* is the order Python compares strings by
CharOrder ==
  <<" ", "*", ".", "0", "1", "2", "3", "4", "5", "6", "7", "8", "9", ":",
    "<", ">", "?",
    "A", "B", "C", "D", "E", "F", "G", "H", "I", "J", "K", "L", "M",
    "N", "O", "P", "Q", "R", "S", "T", "U", "V", "W", "X", "Y", "Z", "_",
    "a", "b", "c", "d", "e", "f", "g", "h", "i", "j", "k", "l", "m",
    "n", "o", "p", "q", "r", "s", "t", "u", "v", "w", "x", "y", "z">>

ord(c) == CHOOSE i \in 1..Len(CharOrder) : CharOrder[i] = c

\* s < t for two strings
RECURSIVE StrLess(_, _)
StrLess(s, t) ==
  IF Len(t) = 0 THEN FALSE
  ELSE IF Len(s) = 0 THEN TRUE
  ELSE IF s[1] = t[1] THEN StrLess(Tail(s), Tail(t))
  ELSE ord(s[1]) < ord(t[1])

\* the key of sorted() in dump_pretty and make_size_report, and a < b for
\* two such keys
SortKey(objs, k) == <<Lower(objs[k].type), Lower(k)>>
KeyLess(a, b) == StrLess(a[1], b[1]) \/ (a[1] = b[1] /\ StrLess(a[2], b[2]))

\* sorted(xAOD_Objects.items(), key=...), as the list of the container
\* names; two names with the same key (equal up to case, and so are their
\* types) come in the order of the dict, which the model does not draw
RECURSIVE SortedContainers(_, _)
SortedContainers(objs, names) ==
  IF names = {} THEN <<>>
  ELSE LET first == CHOOSE k \in names :
                      \A j \in names : ~KeyLess(SortKey(objs, j), SortKey(objs, k))
       IN  <<first>> \o SortedContainers(objs, names \ {first})

\* fields with f put in before the first Field whose lowercased name is
\* greater than that of f
RECURSIVE InsertField(_, _)
InsertField(fields, f) ==
  IF Len(fields) = 0 THEN <<f>>
  ELSE IF StrLess(Lower(f.name), Lower(fields[1].name)) THEN <<f>> \o fields
  ELSE <<fields[1]>> \o InsertField(Tail(fields), f)

\* sorted(fields, key=lambda k: k['name'].lower()): Fields with the same key
\* keep their order
RECURSIVE SortedFields(_)
SortedFields(fields) ==
  IF Len(fields) = 0 THEN <<>>
  ELSE InsertField(SortedFields(SubSeq(fields, 1, Len(fields) - 1)),
                   fields[Len(fields)])

\* one f.write of dump_pretty: which format string, and the values put in
Line(line, type, name) == [line |-> line, type |-> type, name |-> name]

sColon == <<":">>
sContainer == <<"C","o","n","t","a","i","n","e","r">>

\* the lines written between two containers when the type switches, or at
\* the start: the closing rule of the group before unless currContainerType
\* is '', the link to the documentation of the type, the type
HeaderLines(currContainerType, type) ==
  IF currContainerType # type
  THEN (IF currContainerType # <<>>
        THEN <<Line("rule", <<>>, <<>>)>> ELSE <<>>)
       \o <<Line("url", Replace(Replace(type, sColon), sContainer), <<>>),
            Line("type", type, <<>>)>>
  ELSE <<>>

\* the lines of one kind for the Fields, in their sorted order
FieldLines(line, fields) ==
  LET sorted == SortedFields(fields)
  IN  [i \in 1..Len(sorted) |-> Line(line, sorted[i].type, sorted[i].name)]

\* the lines of one container: its own, its properties and attributes when
\* they are listed, and a closing rule when one of the listed lists has
\* Fields
ContainerLines(ContainerName, Elements, a) ==
  <<Line("container", Elements.type, ContainerName)>>
  \o (IF a.list_properties THEN FieldLines("prop", Elements.prop) ELSE <<>>)
  \o (IF a.list_attributes THEN FieldLines("attr", Elements.attr) ELSE <<>>)
  \o (IF \/ (a.list_attributes /\ Len(Elements.attr) > 0)
         \/ (a.list_properties /\ Len(Elements.prop) > 0)
      THEN <<Line("close", <<>>, <<>>)>> ELSE <<>>)

\* the loop of dump_pretty over the sorted containers that are left
RECURSIVE PrettyFrom(_, _, _, _)
PrettyFrom(objs, names, currContainerType, a) ==
  IF Len(names) = 0 THEN <<>>
  ELSE LET Elements == objs[names[1]]
       IN  HeaderLines(currContainerType, Elements.type)
           \o ContainerLines(names[1], Elements, a)
           \o PrettyFrom(objs, Tail(names), Elements.type, a)

\* what dump_pretty writes to f
dump_pretty(objs, a) ==
  PrettyFrom(objs, SortedContainers(objs, DOMAIN objs), <<>>, a)
  \o <<Line("end", <<>>, <<>>)>>


(***************************************************************************)
(* save_plot and make_report.                                              *)
(***************************************************************************)
sElementLink == <<"E","l","e","m","e","n","t","L","i","n","k">>

\* what the tree gives save_plot for one Field: whether t.Draw left a
\* histogram 'htemp' on the canvas, the statistics of that histogram, and
\* GetValue(0) of the first leaf of the branch
TreeDraw(htemp, entries, mean, rms, value) ==
  [htemp |-> htemp, entries |-> entries, mean |-> mean, rms |-> rms,
   counts |-> [min |-> 1, max |-> 3], value |-> value]

\* no histogram over missing values, no histogram over values that are
\* there, a histogram with RMS 0, a histogram with RMS 2
TreeDraws ==
  { TreeDraw(FALSE, 0, 0, 0, 0), TreeDraw(FALSE, 0, 0, 0, 1),
    TreeDraw(TRUE, 5, 1, 0, 1), TreeDraw(TRUE, 5, 1, 2, 1) }

\* what save_plot reads of the tree for a Field: nothing when the type
\* holds 'ElementLink', since then it neither draws nor reads the values
DrawsOf(item) ==
  IF Contains(item.type, sElementLink) THEN {TreeDraw(FALSE, 0, 0, 0, 0)}
  ELSE TreeDraws

\* drawable, as save_plot computes and returns it
Drawable(item, draw) == ~Contains(item.type, sElementLink) /\ draw.htemp

\* the item once save_plot has set entries, mean, rms, drawable and counts
save_plot(item, draw) ==
  IF Drawable(item, draw)
  THEN item @@ [entries |-> draw.entries, mean |-> draw.mean, rms |-> draw.rms,
                drawable |-> TRUE, counts |-> draw.counts]
  ELSE item @@ [entries |-> 0, mean |-> 0, rms |-> 0,
                drawable |-> FALSE, counts |-> [min |-> 0, max |-> 0]]

\* one record of dumpSG_logger: the level, the container and the name of
\* the Field in the message, the message, and the path in the detail line
LogRecord(level, container, item, message) ==
  [level |-> level, container |-> container, name |-> item.name,
   message |-> message, path |-> item.rootname]

\* PlotLog without the record for an item of an ElementLink type
PlotLogLinkSilent(item, container, draw) ==
  IF Drawable(item, draw)
  THEN IF draw.rms = 0
       THEN <<LogRecord("warning", container, item, "might be problematic (RMS=0)")>>
       ELSE <<>>
  ELSE IF Contains(item.type, sElementLink)
       THEN <<>>
  ELSE IF draw.value = 0
       THEN <<LogRecord("warning", container, item, "has missing values")>>
  ELSE <<LogRecord("warning", container, item, "couldn't be drawn")>>

\* the records save_plot logs for one Field
PlotLog(item, container, draw) ==
  IF Drawable(item, draw)
  THEN IF draw.rms = 0
       THEN <<LogRecord("warning", container, item, "might be problematic (RMS=0)")>>
       ELSE <<>>
  ELSE IF Contains(item.type, sElementLink)
       THEN <<LogRecord("info", container, item, "is an ElementLink type")>>
  ELSE IF draw.value = 0
       THEN <<LogRecord("warning", container, item, "has missing values")>>
  ELSE <<LogRecord("warning", container, item, "couldn't be drawn")>>

\* the lists of what the tree gives for each of the items, in their order
DrawLists(items) ==
  {d \in [1..Len(items) -> TreeDraws] :
     \A i \in 1..Len(items) : d[i] \in DrawsOf(items[i])}

\* for every container of the hierarchy, what the tree gives for each item
\* of propsAndAttrs
DrawsFor(objs) ==
  {draws \in [DOMAIN objs ->
                UNION {DrawLists(Children(objs[k])) : k \in DOMAIN objs}] :
     \A k \in DOMAIN objs : draws[k] \in DrawLists(Children(objs[k]))}

\* numDrawn once the loop over propsAndAttrs is over
NumDrawn(items, d) == Cardinality({i \in 1..Len(items) : Drawable(items[i], d[i])})

\* the records logged while make_report handles one container: those of
\* save_plot for each item in turn, then the one for a container with items
\* of which none was drawn
ContainerLog(container, items, d) ==
  LET RECURSIVE Upto(_)
      Upto(n) == IF n = 0 THEN <<>>
                 ELSE Upto(n - 1) \o PlotLog(items[n], container, d[n])
  IN  Upto(Len(items))
      \o (IF Len(items) > 0 /\ NumDrawn(items, d) = 0
          THEN <<[level |-> "info", container |-> container, name |-> <<>>,
                  message |-> "has no drawable children elements",
                  path |-> <<>>]>>
          ELSE <<>>)

\* the pdf files left in the report directory for one container: with
\* --merge-report the file of the container, without it one file for every
\* name of a drawn item; none when nothing was drawn
ContainerFiles(container, items, d, merge_report) ==
  IF merge_report
  THEN (IF NumDrawn(items, d) > 0 THEN {<<container>>} ELSE {})
  ELSE {<<container, items[i].name>> :
          i \in {j \in 1..Len(items) : Drawable(items[j], d[j])}}

\* containerVals once make_report is through with it: the items of 'prop'
\* and 'attr' are the dicts save_plot has written to, and 'drawn' is set
Reported(Elements, d) ==
  LET np == IF "prop" \in DOMAIN Elements THEN Len(Elements.prop) ELSE 0
      withProp == IF "prop" \in DOMAIN Elements
                  THEN [Elements EXCEPT !.prop =
                          [i \in 1..np |-> save_plot(Elements.prop[i], d[i])]]
                  ELSE Elements
      withAttr == IF "attr" \in DOMAIN Elements
                  THEN [withProp EXCEPT !.attr =
                          [i \in 1..Len(Elements.attr) |->
                             save_plot(Elements.attr[i], d[np + i])]]
                  ELSE withProp
  IN  withAttr @@ [drawn |-> NumDrawn(Children(Elements), d)]

\* the hierarchy after make_report, the records it has logged for each
\* container, the pdf files it has left, and the text of info.json
make_report(objs, draws, merge_report) ==
  LET after == [k \in DOMAIN objs |-> Reported(objs[k], draws[k])]
  IN  [objs |-> after,
       log |-> [k \in DOMAIN objs |->
                  ContainerLog(k, Children(objs[k]), draws[k])],
       files |-> UNION {ContainerFiles(k, Children(objs[k]), draws[k], merge_report) :
                          k \in DOMAIN objs},
       info |-> after]


(***************************************************************************)
(* The program state and the steps of __main__.                            *)
(***************************************************************************)
MaxLeaves == 3
MaxBuild == 2
MaxReport == 3

VARIABLES
  pc,                    \* where __main__ is: "inspect", "filter", "sizes",
                         \* "report", "dump", "done", or "aborted" after an
                         \* exception
  elements,              \* the leaves the loop of inspect_tree has processed
  el,                    \* the loop variable of inspect_tree
  xAOD_Objects,          \* the hierarchy inspect_tree builds
  args,                  \* the parsed command line
  filtered_xAOD_Objects, \* the hierarchy from filter_xAOD_objects on
  output,                \* the output file
  report                 \* what make_report has logged and left on disk

vars ==
  <<pc, elements, el, xAOD_Objects, args, filtered_xAOD_Objects, output, report>>

NoLeaf == Leaf(<<>>, <<>>, 0, 0)
NoOutput == [written |-> FALSE, content |-> <<>>]
NoReport == [made |-> FALSE, log |-> <<>>, files |-> {}, info |-> <<>>]

Init ==
  /\ pc = "inspect"
  /\ elements = <<>>
  /\ el = NoLeaf
  /\ xAOD_Objects = <<>>
  /\ args = DefaultArgs
  /\ filtered_xAOD_Objects = <<>>
  /\ output = NoOutput
  /\ report = NoReport

\* one iteration of `for el in elements` that runs to its end
InspectLeaf(pool, max) ==
  /\ pc = "inspect"
  /\ Len(elements) < max
  /\ \E leaf \in pool :
       /\ xAOD_Type_Name(leaf.type).matched
       /\ el' = leaf
       /\ elements' = Append(elements, leaf)
       /\ xAOD_Objects' = Classify(xAOD_Objects, leaf, NormalizedType(leaf.type))
  /\ UNCHANGED <<pc, args, filtered_xAOD_Objects, output, report>>

\* InspectRaises with the unmatched leaf skipped instead
InspectSkips(pool, max) ==
  /\ pc = "inspect"
  /\ Len(elements) < max
  /\ \E leaf \in pool :
       /\ ~xAOD_Type_Name(leaf.type).matched
       /\ el' = leaf
  /\ UNCHANGED <<pc, elements, xAOD_Objects, args, filtered_xAOD_Objects,
                 output, report>>

\* one iteration whose xAOD_Type_Name.search(elType) is None: .groups()
\* raises, inspect_tree is left and the except clause of __main__ logs it
InspectRaises(pool, max) ==
  /\ pc = "inspect"
  /\ Len(elements) < max
  /\ \E leaf \in pool :
       /\ ~xAOD_Type_Name(leaf.type).matched
       /\ el' = leaf
  /\ pc' = "aborted"
  /\ UNCHANGED <<elements, xAOD_Objects, args, filtered_xAOD_Objects,
                 output, report>>

\* the loop is over: inspect_tree returns xAOD_Objects
InspectReturn ==
  /\ pc = "inspect"
  /\ pc' = "filter"
  /\ UNCHANGED <<elements, el, xAOD_Objects, args, filtered_xAOD_Objects,
                 output, report>>

\* filtered_xAOD_Objects = filter_xAOD_objects(xAOD_Objects, args); the
\* command line is drawn here, where it is first read
FilterFrom(pool) ==
  /\ pc = "filter"
  /\ \E a \in pool :
       /\ args' = a
       /\ ~FilterRaises(xAOD_Objects, a)
       /\ filtered_xAOD_Objects' = filter_xAOD_objects(xAOD_Objects, a)
  /\ pc' = "sizes"
  /\ UNCHANGED <<elements, el, xAOD_Objects, output, report>>

\* filter_xAOD_objects raises and the except clause of __main__ logs it
FilterAbortsFrom(pool) ==
  /\ pc = "filter"
  /\ \E a \in pool :
       /\ args' = a
       /\ FilterRaises(xAOD_Objects, a)
  /\ pc' = "aborted"
  /\ UNCHANGED <<elements, el, xAOD_Objects, filtered_xAOD_Objects,
                 output, report>>

\* UpdateSizes with the totals taken from update_sizes(xAOD_Objects), the
\* hierarchy before Filter
UpdateSizesUnfiltered ==
  /\ pc = "sizes"
  /\ filtered_xAOD_Objects' =
       [k \in DOMAIN filtered_xAOD_Objects |->
          [filtered_xAOD_Objects[k] EXCEPT
             !.totbytes = update_sizes(xAOD_Objects)[k].totbytes,
             !.filebytes = update_sizes(xAOD_Objects)[k].filebytes]]
  /\ pc' = "report"
  /\ UNCHANGED <<elements, el, xAOD_Objects, args, output, report>>

\* update_sizes(filtered_xAOD_Objects)
UpdateSizes ==
  /\ pc = "sizes"
  /\ filtered_xAOD_Objects' = update_sizes(filtered_xAOD_Objects)
  /\ pc' = "report"
  /\ UNCHANGED <<elements, el, xAOD_Objects, args, output, report>>

\* neither --report nor --size is given: both `if` are passed by
NoReports ==
  /\ pc = "report"
  /\ ~args.make_report
  /\ ~args.make_size_report
  /\ pc' = "dump"
  /\ UNCHANGED <<elements, el, xAOD_Objects, args, filtered_xAOD_Objects,
                 output, report>>

\* --report is given, with or without --merge-report, and --size is not:
\* make_report(t, filtered_xAOD_Objects, ...), for whatever the tree gives
\* when the items are drawn; the options are drawn here, where they are
\* first read. The lists 'prop' and 'attr' of a retained container are the
\* lists of xAOD_Objects themselves, so the items change there as well.
MakeReport ==
  /\ pc = "report"
  /\ \E merge_report \in BOOLEAN, draws \in DrawsFor(filtered_xAOD_Objects) :
       LET made == make_report(filtered_xAOD_Objects, draws, merge_report)
       IN  /\ args' = [args EXCEPT !.make_report = TRUE,
                                   !.merge_report = merge_report]
           /\ filtered_xAOD_Objects' = made.objs
           /\ xAOD_Objects' =
                [k \in DOMAIN xAOD_Objects |->
                   IF k \in DOMAIN made.objs
                   THEN [q \in DOMAIN xAOD_Objects[k] |->
                           IF q \in {"prop", "attr"} /\ q \in DOMAIN made.objs[k]
                           THEN made.objs[k][q] ELSE xAOD_Objects[k][q]]
                   ELSE xAOD_Objects[k]]
           /\ report' = [made |-> TRUE, log |-> made.log,
                         files |-> made.files, info |-> made.info]
  /\ pc' = "dump"
  /\ UNCHANGED <<elements, el, output>>

\* the values of -f
OutputFormats == {"json", "pickle", "pretty"}

\* dump_xAOD_objects(filtered_xAOD_Objects, args): the file holds the
\* hierarchy as json.dumps or pickle.dump write it, or the lines of
\* dump_pretty; the format is drawn here, where it is first read
DumpAs(formats) ==
  /\ pc = "dump"
  /\ \E format \in formats :
       /\ args' = [args EXCEPT !.output_format = format]
       /\ output' =
            [written |-> TRUE,
             content |-> IF format = "pretty"
                         THEN dump_pretty(filtered_xAOD_Objects, args)
                         ELSE filtered_xAOD_Objects]
  /\ pc' = "done"
  /\ UNCHANGED <<elements, el, xAOD_Objects, filtered_xAOD_Objects, report>>

ReadLeaf == InspectLeaf(TreeLeaves, MaxLeaves)
Filter == FilterFrom(ArgsPool)
FilterAborts == FilterAbortsFrom(ArgsPool)
\* the pipeline specification writes the hierarchy itself, with -f json
Dump == DumpAs({"json"})
ReadLeafRaises == InspectRaises(TreeLeaves, MaxLeaves)

Next ==
  \/ ReadLeaf
  \/ ReadLeafRaises
  \/ InspectReturn
  \/ Filter
  \/ FilterAborts
  \/ UpdateSizes
  \/ NoReports
  \/ Dump

\* the whole run of __main__ on trees of at most MaxLeaves leaves
Spec == Init /\ [][Next]_vars

BuildLeaf == InspectLeaf(LeafPool, MaxBuild)
BuildLeafRaises == InspectRaises(LeafPool, MaxBuild)

NextBuild ==
  \/ BuildLeaf
  \/ BuildLeafRaises

\* the build pass alone, on the wider set of leaves
SpecBuild == Init /\ [][NextBuild]_vars

ReportLeaf == InspectLeaf(ReportLeaves, MaxReport)
ReportFilter == FilterFrom(ReportArgs)
ReportFilterAborts == FilterAbortsFrom(ReportArgs)
ReportDump == DumpAs(OutputFormats)

NextReport ==
  \/ ReportLeaf
  \/ InspectReturn
  \/ ReportFilter
  \/ ReportFilterAborts
  \/ UpdateSizes
  \/ NoReports
  \/ MakeReport
  \/ ReportDump

\* the whole run of __main__ with and without --report, on trees of at most
\* MaxReport of the report leaves
SpecReport == Init /\ [][NextReport]_vars


(***************************************************************************)
(* The four name patterns, stated on the names themselves.                 *)
(***************************************************************************)
Prefixes(s) == {Take(s, i) : i \in 0..Len(s)}

\* name is '<c>Aux.'
IsAuxRootName(name, c) == name = c \o sAuxDot
\* name is '<c>Aux.<f>', f not empty and without ':'
IsPropertyName(name, c, f) ==
  name = c \o sAuxDot \o f /\ Len(f) >= 1 /\ NoColon(f)
\* name is '<c>AuxDyn.<f>', f not empty and without ':'
IsAttributeName(name, c, f) ==
  name = c \o sAuxDynDot \o f /\ Len(f) >= 1 /\ NoColon(f)
\* name has no ':' and does not end in '.'
IsContainerRootName(name) ==
  NoColon(name) /\ (Len(name) = 0 \/ name[Len(name)] # ".")

LooksAuxRoot(name) == \E c \in Prefixes(name) : IsAuxRootName(name, c)
\* what follows '<c>Aux.' and '<c>AuxDyn.' in name
AfterAux(name, c) == Drop(name, Len(c) + Len(sAuxDot))
AfterAuxDyn(name, c) == Drop(name, Len(c) + Len(sAuxDynDot))

LooksProperty(name) ==
  \E c \in Prefixes(name) : IsPropertyName(name, c, AfterAux(name, c))
LooksAttribute(name) ==
  \E c \in Prefixes(name) : IsAttributeName(name, c, AfterAuxDyn(name, c))

\* this step is one completed iteration of the loop, on the leaf el'
LeafStep == pc = "inspect" /\ pc' = "inspect" /\ elements' = Append(elements, el')

\* this step touches container c alone, creating it when it is new
OnlyChanges(c) ==
  /\ DOMAIN xAOD_Objects' = DOMAIN xAOD_Objects \cup {c}
  /\ \A k \in DOMAIN xAOD_Objects \ {c} : xAOD_Objects'[k] = xAOD_Objects[k]

\* this step is AuxRoot(c)
AsAuxRoot(c) ==
  /\ OnlyChanges(c)
  /\ xAOD_Objects'[c] =
       [Get(xAOD_Objects, c) EXCEPT
          !.type = xAOD_Objects'[c].type,
          !.has_aux = TRUE,
          !.rootname = el'.name,
          !.totbytes = @ + el'.totbytes,
          !.filebytes = @ + el'.filebytes]

\* this step is Property(c, f): one Field named f is appended to prop
AsProperty(c, f) ==
  /\ OnlyChanges(c)
  /\ \E type \in {xAOD_Objects'[c].prop[i].type :
                    i \in 1..Len(xAOD_Objects'[c].prop)} :
       xAOD_Objects'[c] =
         [Get(xAOD_Objects, c) EXCEPT !.prop = Append(@, Field(f, type, el'))]

\* this step is Attribute(c, f): one Field of this leaf is appended, to attr
\* under the name f, or to prop when f holds 'btagging'
AsAttribute(c, f) ==
  /\ OnlyChanges(c)
  /\ LET old == Get(xAOD_Objects, c)
         new == xAOD_Objects'[c]
     IN  IF Contains(Lower(f), sbtagging)
         THEN /\ Len(new.prop) = Len(old.prop) + 1
              /\ new.prop[Len(new.prop)].rootname = el'.name
              /\ new = [old EXCEPT !.prop = Append(@, new.prop[Len(new.prop)])]
         ELSE \E type \in {new.attr[i].type : i \in 1..Len(new.attr)} :
                new = [old EXCEPT !.attr = Append(@, Field(f, type, el'))]

\* this step is ContainerRoot(c)
AsContainerRoot(c) ==
  /\ OnlyChanges(c)
  /\ xAOD_Objects'[c] =
       [Get(xAOD_Objects, c) EXCEPT
          !.type = xAOD_Objects'[c].type,
          !.rootname = xAOD_Objects'[c].rootname,
          !.totbytes = @ + el'.totbytes,
          !.filebytes = @ + el'.filebytes]

\* the one classification the claimed order gives the leaf el'
FirstMatchApplied ==
  LET name == el'.name
  IN  IF LooksAuxRoot(name)
      THEN \E c \in Prefixes(name) : IsAuxRootName(name, c) /\ AsAuxRoot(c)
      ELSE IF LooksProperty(name)
      THEN \E c \in Prefixes(name) :
             /\ IsPropertyName(name, c, AfterAux(name, c))
             /\ AsProperty(c, AfterAux(name, c))
      ELSE IF LooksAttribute(name)
      THEN \E c \in Prefixes(name) :
             /\ IsAttributeName(name, c, AfterAuxDyn(name, c))
             /\ AsAttribute(c, AfterAuxDyn(name, c))
      ELSE IF IsContainerRootName(name) THEN AsContainerRoot(name)
      ELSE xAOD_Objects' = xAOD_Objects

\* the four named leaves of the claim
NamedExamples ==
  /\ el'.name = nFoo => AsContainerRoot(nFoo)
  /\ el'.name = nFooAux => AsAuxRoot(nFoo)
  /\ el'.name = nFooAuxPt => AsProperty(nFoo, <<"p","t">>)
  /\ el'.name = nFooDynTau1 => AsAttribute(nFoo, <<"T","a","u","1">>)

\* C1: every completed iteration of the loop applies exactly the first of
\* AuxRoot, Property, Attribute, ContainerRoot that the leaf's name matches,
\* to one container, and a name that matches none leaves the hierarchy as it
\* was; 'Foo', 'FooAux.', 'FooAux.pt' and 'FooAuxDyn.Tau1' are classified as
\* ContainerRoot('Foo'), AuxRoot('Foo'), Property('Foo','pt') and
\* Attribute('Foo','Tau1').
C1_FirstMatchWins == [][LeafStep => (FirstMatchApplied /\ NamedExamples)]_vars

\* a property leaf, which also fits the bare container pattern, was filed
\* under 'Foo', and then a leaf matching no pattern was processed
C1_Witness ==
  /\ pc = "inspect"
  /\ Len(elements) = 2
  /\ elements[1].name = nFooAuxPt
  /\ elements[2].name = nFooColon
  /\ DOMAIN xAOD_Objects = {nFoo}
  /\ Len(xAOD_Objects[nFoo].prop) = 1


(***************************************************************************)
(* The classification of a processed leaf, read off its name.              *)
(***************************************************************************)

\* the leaf is an aux-root leaf of container c
IsAuxLeafOf(leaf, c) == IsAuxRootName(leaf.name, c)

\* the leaf is a bare container-root leaf of container c
IsRootLeafOf(leaf, c) ==
  /\ leaf.name = c
  /\ ~LooksAuxRoot(leaf.name)
  /\ ~LooksProperty(leaf.name)
  /\ ~LooksAttribute(leaf.name)
  /\ IsContainerRootName(leaf.name)

\* the leaf is a Property leaf of container c: c is the longest container
\* part the pattern allows
IsPropertyLeafOf(leaf, c) ==
  /\ IsPropertyName(leaf.name, c, AfterAux(leaf.name, c))
  /\ ~LooksAuxRoot(leaf.name)
  /\ \A d \in Prefixes(leaf.name) :
       IsPropertyName(leaf.name, d, AfterAux(leaf.name, d)) => Len(d) <= Len(c)

\* the leaf is an Attribute leaf of container c with field name f
IsAttributeLeafOf(leaf, c, f) ==
  /\ IsAttributeName(leaf.name, c, f)
  /\ ~LooksAuxRoot(leaf.name)
  /\ ~LooksProperty(leaf.name)
  /\ \A d \in Prefixes(leaf.name) :
       IsAttributeName(leaf.name, d, AfterAuxDyn(leaf.name, d))
         => Len(d) <= Len(c)

\* the leaf is an Attribute leaf of c whose field name holds 'btagging'
IsBtaggingLeafOf(leaf, c) ==
  /\ IsAttributeLeafOf(leaf, c, AfterAuxDyn(leaf.name, c))
  /\ Contains(Lower(AfterAuxDyn(leaf.name, c)), sbtagging)

\* the leaf is an Attribute leaf of c whose field name holds no 'btagging'
IsPlainAttributeLeafOf(leaf, c) ==
  /\ IsAttributeLeafOf(leaf, c, AfterAuxDyn(leaf.name, c))
  /\ ~Contains(Lower(AfterAuxDyn(leaf.name, c)), sbtagging)

\* the positions of the processed leaves that satisfy P
Processed(P(_)) == {i \in 1..Len(elements) : P(elements[i])}

\* C2: once an aux-root leaf of a container has been processed, a bare
\* container-root leaf of the same container does not change the
\* container's type.
C2_AuxTypeNeverOverwritten ==
  [][LeafStep =>
       \A c \in DOMAIN xAOD_Objects :
         ( /\ \E i \in 1..Len(elements) : IsAuxLeafOf(elements[i], c)
           /\ IsRootLeafOf(el', c) )
         => xAOD_Objects'[c].type = xAOD_Objects[c].type]_vars

\* C7: a container's has_aux is true exactly when an aux-root leaf of that
\* container is among the processed leaves, and every container with such
\* a leaf has a record.
C7_HasAuxIffAuxLeafSeen ==
  /\ \A c \in DOMAIN xAOD_Objects :
       xAOD_Objects[c].has_aux <=>
         \E i \in 1..Len(elements) : IsAuxLeafOf(elements[i], c)
  /\ \A i \in 1..Len(elements) :
       \A c \in Prefixes(elements[i].name) :
         IsAuxLeafOf(elements[i], c) => c \in DOMAIN xAOD_Objects

\* the aux-root leaf of 'Foo' was processed, then its bare container leaf
C7_Witness ==
  /\ Len(elements) = 2
  /\ elements[1].name = nFooAux
  /\ elements[2].name = nFoo
  /\ xAOD_Objects[nFoo].has_aux

\* C3: no Field of any attr list has a name holding 'btagging' in any
\* letter case; a container's prop list holds one Field per processed
\* Property leaf and per processed Attribute leaf with 'btagging' in its
\* field name, and its attr list one Field per other Attribute leaf.
C3_BtaggingNeverInAttr ==
  \A c \in DOMAIN xAOD_Objects :
    /\ \A i \in 1..Len(xAOD_Objects[c].attr) :
         ~Contains(Lower(xAOD_Objects[c].attr[i].name), sbtagging)
    /\ Len(xAOD_Objects[c].prop) =
         Cardinality(Processed(LAMBDA l : IsPropertyLeafOf(l, c)))
         + Cardinality(Processed(LAMBDA l : IsBtaggingLeafOf(l, c)))
    /\ Len(xAOD_Objects[c].attr) =
         Cardinality(Processed(LAMBDA l : IsPlainAttributeLeafOf(l, c)))

\* a 'btagging' attribute leaf in capitals and a plain attribute leaf of
\* 'Foo' were both processed: one Field in prop, one in attr
C3_Witness ==
  /\ Len(elements) = 2
  /\ elements[1].name = nFooDynBTagging
  /\ elements[2].name = nFooDynTau1
  /\ Len(xAOD_Objects[nFoo].prop) = 1
  /\ Len(xAOD_Objects[nFoo].attr) = 1


(***************************************************************************)
(* The claimed type normalization, stated on the declared type.            *)
(***************************************************************************)

\* one enclosing 'vector<...>' removed, with one space before the closing '>'
Unwrapped(t) ==
  IF /\ Len(t) >= Len(sVectorLt) + 2
     /\ Take(t, Len(sVectorLt)) = sVectorLt
     /\ t[Len(t)] = ">"
  THEN LET body == SubSeq(t, Len(sVectorLt) + 1, Len(t) - 1)
       IN  IF Len(body) >= 2 /\ body[Len(body)] = " "
           THEN Take(body, Len(body) - 1) ELSE body
  ELSE t

\* every 'Aux' removed, reading from the left
RECURSIVE WithoutAux(_)
WithoutAux(t) ==
  IF Len(t) < 3 THEN t
  ELSE IF t[1] = "A" /\ t[2] = "u" /\ t[3] = "x" THEN WithoutAux(Drop(t, 3))
  ELSE <<t[1]>> \o WithoutAux(Drop(t, 1))

\* t without its leading digits
RECURSIVE SkipDigits(_)
SkipDigits(t) ==
  IF Len(t) >= 1 /\ t[1] \in Digits THEN SkipDigits(Drop(t, 1)) ELSE t

\* every '_v<digits>' removed, reading from the left
RECURSIVE WithoutVersion(_)
WithoutVersion(t) ==
  IF Len(t) < 3 THEN t
  ELSE IF t[1] = "_" /\ t[2] = "v" /\ t[3] \in Digits
       THEN WithoutVersion(SkipDigits(Drop(t, 2)))
  ELSE <<t[1]>> \o WithoutVersion(Drop(t, 1))

ClaimedType(t) == WithoutVersion(WithoutAux(Unwrapped(t)))

\* every 'Link' removed, reading from the left
RECURSIVE WithoutLink(_)
WithoutLink(t) ==
  IF Len(t) < 4 THEN t
  ELSE IF t[1] = "L" /\ t[2] = "i" /\ t[3] = "n" /\ t[4] = "k"
       THEN WithoutLink(Drop(t, 4))
  ELSE <<t[1]>> \o WithoutLink(Drop(t, 1))

Range(seq) == {seq[i] : i \in 1..Len(seq)}

\* positions i < j of s hold '<' and '>' with no angle bracket in between
IsInnerGroup(s, i, j) ==
  /\ s[i] = "<"
  /\ s[j] = ">"
  /\ \A k \in (i+1)..(j-1) : s[k] # "<" /\ s[k] # ">"

HasInnerGroup(s) ==
  \E i \in 1..Len(s), j \in 1..Len(s) : i < j /\ IsInnerGroup(s, i, j)

\* type is what the claim gives a b-tagging Field whose normalized type is nt
IsBtaggingTypeOf(type, nt) ==
  IF HasInnerGroup(nt)
  THEN \E i \in 1..Len(nt), j \in 1..Len(nt) :
         /\ i < j
         /\ IsInnerGroup(nt, i, j)
         /\ type = SubSeq(nt, i + 1, j - 1) \o sSpaceStar
  ELSE type = nt

sfloat == <<"f","l","o","a","t">>

\* C5: the Field of every processed Property leaf and of every processed
\* Attribute leaf without 'btagging' carries the declared type with one
\* enclosing 'vector<...>' removed, then 'Aux' removed, then '_v<digits>'
\* removed; the Field of a 'btagging' Attribute leaf carries that type or
\* the inner type taken from it; and a container's type is that of one of
\* its aux-root or bare container-root leaves.  'vector<float>' is recorded
\* as 'float' for 'FooAux.pt' and 'FooAuxDyn.Tau1', and the unwrapped
\* 'vector<float' is kept as it is.
C5_RecordedTypeIsNormalized ==
  /\ \A i \in 1..Len(elements) :
       LET leaf == elements[i]
       IN  \A c \in Prefixes(leaf.name) :
             /\ IsPropertyLeafOf(leaf, c) =>
                  /\ c \in DOMAIN xAOD_Objects
                  /\ Field(AfterAux(leaf.name, c), ClaimedType(leaf.type), leaf)
                       \in Range(xAOD_Objects[c].prop)
             /\ IsPlainAttributeLeafOf(leaf, c) =>
                  /\ c \in DOMAIN xAOD_Objects
                  /\ Field(AfterAuxDyn(leaf.name, c), ClaimedType(leaf.type), leaf)
                       \in Range(xAOD_Objects[c].attr)
             /\ IsBtaggingLeafOf(leaf, c) =>
                  /\ c \in DOMAIN xAOD_Objects
                  /\ \E f \in Range(xAOD_Objects[c].prop) :
                       /\ f.rootname = leaf.name
                       /\ f.totbytes = leaf.totbytes
                       /\ IsBtaggingTypeOf(f.type, ClaimedType(leaf.type))
  /\ \A c \in DOMAIN xAOD_Objects :
       LET roots == Processed(LAMBDA l : IsAuxLeafOf(l, c) \/ IsRootLeafOf(l, c))
       IN  IF roots = {} THEN xAOD_Objects[c].type = None
           ELSE xAOD_Objects[c].type
                  \in {ClaimedType(elements[i].type) : i \in roots}
  /\ \A i \in 1..Len(elements) :
       /\ (elements[i].name = nFooAuxPt /\ elements[i].type = tVectorFloat)
            => \E f \in Range(xAOD_Objects[nFoo].prop) :
                 f.name = <<"p","t">> /\ f.type = sfloat
       /\ (elements[i].name = nFooDynTau1 /\ elements[i].type = tVectorFloat)
            => \E f \in Range(xAOD_Objects[nFoo].attr) :
                 f.name = <<"T","a","u","1">> /\ f.type = sfloat
       /\ (elements[i].name = nFooDynTau1 /\ elements[i].type = tVectorFloatOpen)
            => \E f \in Range(xAOD_Objects[nFoo].attr) : f.type = tVectorFloatOpen

\* 'FooAux.pt' of type 'vector<float >' and 'FooAux.' of type
\* 'xAOD::JetAuxContainer_v1' were processed
C5_Witness ==
  /\ Len(elements) = 2
  /\ elements[1].name = nFooAuxPt /\ elements[1].type = tVectorFloatSp
  /\ elements[2].name = nFooAux /\ elements[2].type = tJetAuxContainer
  /\ xAOD_Objects[nFoo].prop[1].type = sfloat
  /\ xAOD_Objects[nFoo].type =
       <<"x","A","O","D",":",":","J","e","t","C","o","n","t","a","i","n","e","r">>

\* C4: every processed Attribute leaf with 'btagging' in its field name has
\* a Field in prop named by the field name with every 'Link' cut out in one
\* pass from the left, typed '<inner> *' when the normalized type holds an
\* angle-bracket group without nested brackets and by the normalized type
\* otherwise; 'btaggingLink' of
\* type 'vector<ElementLink<DataVector<xAOD::BTagging_v1> > >' becomes
\* 'btagging' of type 'xAOD::BTagging *', and 'btaggingLink_' of type
\* 'Int_t' becomes 'btagging_' of type 'Int_t'.
C4_BtaggingField ==
  \A i \in 1..Len(elements) :
    LET leaf == elements[i]
    IN  /\ \A c \in Prefixes(leaf.name) :
             IsBtaggingLeafOf(leaf, c) =>
               /\ c \in DOMAIN xAOD_Objects
               /\ \E f \in Range(xAOD_Objects[c].prop) :
                    /\ f.rootname = leaf.name
                    /\ f.totbytes = leaf.totbytes
                    /\ f.filebytes = leaf.filebytes
                    /\ f.name = WithoutLink(AfterAuxDyn(leaf.name, c))
                    /\ IsBtaggingTypeOf(f.type, ClaimedType(leaf.type))
        /\ (leaf.name = nFooDynBtaggingLink /\ leaf.type = tBTagLink) =>
             \E f \in Range(xAOD_Objects[nFoo].prop) :
               /\ f.name = sbtagging
               /\ f.type = <<"x","A","O","D",":",":","B","T","a","g","g","i","n","g"," ","*">>
        /\ (leaf.name = nFooDynBtaggingLinkU /\ leaf.type = tInt) =>
             \E f \in Range(xAOD_Objects[nFoo].prop) :
               /\ f.name = sbtagging \o <<"_">>
               /\ f.type = tInt

\* the link-typed 'btaggingLink' leaf and the degenerate 'btaggingLink_'
\* leaf were both processed into prop
C4_Witness ==
  /\ pc = "inspect"
  /\ Len(elements) = 2
  /\ elements[1].name = nFooDynBtaggingLink /\ elements[1].type = tBTagLink
  /\ elements[2].name = nFooDynBtaggingLinkU /\ elements[2].type = tInt
  /\ Len(xAOD_Objects[nFoo].prop) = 2
  /\ xAOD_Objects[nFoo].attr = <<>>


(***************************************************************************)
(* The run of __main__ after the build pass.                               *)
(***************************************************************************)

\* C6: a leaf whose declared type the grammar does not match is never
\* processed: the run is aborted at that leaf with the hierarchy as it was,
\* and an aborted run has filtered nothing and written no output; a run that
\* filtered or wrote has seen only leaves the grammar matches.
C6_BadTypeAborts ==
  /\ \A i \in 1..Len(elements) : xAOD_Type_Name(elements[i].type).matched
  /\ (el # NoLeaf /\ ~xAOD_Type_Name(el.type).matched) =>
       /\ pc = "aborted"
       /\ \A i \in 1..Len(elements) : elements[i] # el
  /\ pc = "aborted" =>
       /\ filtered_xAOD_Objects = <<>>
       /\ output = NoOutput
  /\ pc \in {"filter", "sizes", "report", "dump", "done"} =>
       (el = NoLeaf \/ xAOD_Type_Name(el.type).matched)

\* two leaves were processed, then the run was aborted at 'BarAux.', a
\* name the aux-root pattern matches, whose declared type is empty
C6_Witness ==
  /\ pc = "aborted"
  /\ Len(elements) = 2
  /\ el.name = nBarAux
  /\ el.type = tEmpty
  /\ DOMAIN xAOD_Objects # {}
  /\ nBar \notin DOMAIN xAOD_Objects

\* what Filter is claimed to retain of container k
ClaimedRetained(k) ==
  /\ fnmatch(args.container_name_regex, k)
  /\ xAOD_Objects[k].type # None
  /\ fnmatch(args.container_type_regex, xAOD_Objects[k].type)
  /\ (xAOD_Objects[k].has_aux \/ ~args.has_aux)

\* C8: when filter_xAOD_objects has returned, the containers of its result
\* are those whose name matches the name glob, whose type matches the type
\* glob and which have an aux container or are not required to; in each,
\* prop is the unchanged list under --prop and absent otherwise, attr is the
\* unchanged list under --attr and absent otherwise, and type, has_aux,
\* rootname, totbytes and filebytes are unchanged.
C8_FilterResult ==
  pc = "sizes" =>
    /\ DOMAIN filtered_xAOD_Objects =
         {k \in DOMAIN xAOD_Objects : ClaimedRetained(k)}
    /\ \A k \in DOMAIN filtered_xAOD_Objects :
         LET v == xAOD_Objects[k]
             w == filtered_xAOD_Objects[k]
         IN  /\ IF args.list_properties
                THEN "prop" \in DOMAIN w /\ w.prop = v.prop
                ELSE "prop" \notin DOMAIN w
             /\ IF args.list_attributes
                THEN "attr" \in DOMAIN w /\ w.attr = v.attr
                ELSE "attr" \notin DOMAIN w
             /\ DOMAIN w \ {"prop", "attr"} =
                  {"type", "has_aux", "rootname", "totbytes", "filebytes"}
             /\ w.type = v.type
             /\ w.has_aux = v.has_aux
             /\ w.rootname = v.rootname
             /\ w.totbytes = v.totbytes
             /\ w.filebytes = v.filebytes

\* with --has_aux and --prop, 'Foo' (aux seen, one property) is retained
\* with its properties and without attr, and 'Bar' (no aux) is dropped
C8_Witness ==
  /\ pc = "sizes"
  /\ args.has_aux /\ args.list_properties /\ ~args.list_attributes
  /\ DOMAIN xAOD_Objects = {nFoo, nBar}
  /\ DOMAIN filtered_xAOD_Objects = {nFoo}
  /\ Len(filtered_xAOD_Objects[nFoo].prop) = 1
  /\ "attr" \notin DOMAIN filtered_xAOD_Objects[nFoo]

\* C9: when filter_xAOD_objects has returned, applying it again with the
\* same arguments to its own result does not raise and returns that result.
C9_FilterIdempotent ==
  pc = "sizes" =>
    /\ ~FilterRaises(filtered_xAOD_Objects, args)
    /\ filter_xAOD_objects(filtered_xAOD_Objects, args) = filtered_xAOD_Objects

\* the first result retains 'Foo' by the type glob 'xAOD::Jet*', without
\* its property and with its attribute
C9_Witness ==
  /\ pc = "sizes"
  /\ ~args.list_properties /\ args.list_attributes
  /\ args.container_type_regex # sStar
  /\ DOMAIN filtered_xAOD_Objects = {nFoo}
  /\ Len(xAOD_Objects[nFoo].prop) = 1
  /\ "prop" \notin DOMAIN filtered_xAOD_Objects[nFoo]
  /\ Len(filtered_xAOD_Objects[nFoo].attr) = 1

\* the sum of key over the processed leaves at the positions in S
RECURSIVE LeafBytes(_, _)
LeafBytes(S, key) ==
  IF S = {} THEN 0
  ELSE LET i == CHOOSE i \in S : TRUE
       IN  elements[i][key] + LeafBytes(S \ {i}, key)

\* the bytes of the aux-root and bare container-root leaves of container k
RootBytes(k, key) ==
  LeafBytes(Processed(LAMBDA l : IsAuxLeafOf(l, k) \/ IsRootLeafOf(l, k)), key)

\* the bytes of the Fields of container k that Filter retained
RECURSIVE FieldBytes(_, _)
FieldBytes(fields, key) ==
  IF fields = <<>> THEN 0
  ELSE Head(fields)[key] + FieldBytes(Tail(fields), key)

RetainedBytes(k, key) ==
  (IF args.list_properties THEN FieldBytes(xAOD_Objects[k].prop, key) ELSE 0)
  + (IF args.list_attributes THEN FieldBytes(xAOD_Objects[k].attr, key) ELSE 0)

\* C10: between Filter and update_sizes the totals of a retained container
\* are its root accumulator, the bytes of its aux-root and bare
\* container-root leaves; from update_sizes on, and in an output file of
\* the json or pickle format, they are that accumulator plus the bytes of
\* the Fields Filter retained, with nothing from the pruned Fields.
C10_SizesAfterFilter ==
  /\ \A k \in DOMAIN xAOD_Objects :
       /\ xAOD_Objects[k].totbytes = RootBytes(k, "totbytes")
       /\ xAOD_Objects[k].filebytes = RootBytes(k, "filebytes")
  /\ pc = "sizes" =>
       \A k \in DOMAIN filtered_xAOD_Objects :
         /\ filtered_xAOD_Objects[k].totbytes = RootBytes(k, "totbytes")
         /\ filtered_xAOD_Objects[k].filebytes = RootBytes(k, "filebytes")
  /\ pc \in {"report", "dump", "done"} =>
       \A k \in DOMAIN filtered_xAOD_Objects :
         /\ filtered_xAOD_Objects[k].totbytes =
              RootBytes(k, "totbytes") + RetainedBytes(k, "totbytes")
         /\ filtered_xAOD_Objects[k].filebytes =
              RootBytes(k, "filebytes") + RetainedBytes(k, "filebytes")
  /\ pc = "done" =>
       /\ output.written
       /\ args.output_format # "pretty" =>
            output.content = filtered_xAOD_Objects
  /\ pc # "done" => ~output.written

\* root accumulator 5 on disk, retained properties of 10 and 20: 35 written
C10_Witness ==
  /\ pc = "done"
  /\ args.output_format = "json"
  /\ args.list_properties
  /\ nFoo \in DOMAIN output.content
  /\ xAOD_Objects[nFoo].filebytes = 5
  /\ Len(xAOD_Objects[nFoo].prop) = 2
  /\ xAOD_Objects[nFoo].prop[1].filebytes = 10
  /\ xAOD_Objects[nFoo].prop[2].filebytes = 20
  /\ output.content[nFoo].filebytes = 35


(***************************************************************************)
(* The build pass on the same leaves in another order.                     *)
(***************************************************************************)
\* the leaves in the order p, a permutation of their positions
Reordered(leaves, p) == [i \in 1..Len(leaves) |-> leaves[p[i]]]

\* how many times the Field f is in fields
Occurrences(f, fields) == Cardinality({i \in 1..Len(fields) : fields[i] = f})

\* the two lists hold the same Fields the same number of times
SameFields(fs, gs) ==
  \A f \in Range(fs) \cup Range(gs) : Occurrences(f, fs) = Occurrences(f, gs)

\* the two hierarchies hold the same containers with the same type,
\* has_aux, rootname and byte accumulators, and the same Fields
SameHierarchy(H, G) ==
  /\ DOMAIN H = DOMAIN G
  /\ \A c \in DOMAIN H :
       /\ H[c].type = G[c].type
       /\ H[c].has_aux = G[c].has_aux
       /\ H[c].rootname = G[c].rootname
       /\ H[c].totbytes = G[c].totbytes
       /\ H[c].filebytes = G[c].filebytes
       /\ SameFields(H[c].prop, G[c].prop)
       /\ SameFields(H[c].attr, G[c].attr)

\* no container has two aux-root leaves or two bare container-root leaves
\* among the leaves
OneRootEach(leaves) ==
  \A i \in 1..Len(leaves), j \in 1..Len(leaves) :
    i # j =>
      \A c \in Prefixes(leaves[i].name) :
        /\ ~(IsAuxLeafOf(leaves[i], c) /\ IsAuxLeafOf(leaves[j], c))
        /\ ~(IsRootLeafOf(leaves[i], c) /\ IsRootLeafOf(leaves[j], c))

\* C12: when no container has two aux-root leaves or two bare
\* container-root leaves among the processed leaves, inspect_tree builds
\* from every reordering of them a hierarchy with the same types, has_aux
\* flags, rootnames, byte accumulators and multisets of prop and attr Fields
\* as the hierarchy built from them in the order they came.
C12_OrderInsensitive ==
  OneRootEach(elements) =>
    \A p \in Permutations(1..Len(elements)) :
      SameHierarchy(inspect_tree(Reordered(elements, p)), xAOD_Objects)


(***************************************************************************)
(* The type string the b-tagging branch searches.                          *)
(***************************************************************************)
\* the text between the first '<' of s whose next angle bracket is a '>',
\* and that '>'
FirstInnerGroup(s) ==
  LET starts == {i \in 1..Len(s) : \E j \in (i+1)..Len(s) : IsInnerGroup(s, i, j)}
      i == CHOOSE k \in starts : \A m \in starts : k <= m
      j == CHOOSE k \in (i+1)..Len(s) : IsInnerGroup(s, i, k)
  IN  SubSeq(s, i + 1, j - 1)

\* the Field that the processed leaf put in prop of container c has this type
FiledWithType(leaf, c, type) ==
  /\ c \in DOMAIN xAOD_Objects
  /\ \E f \in Range(xAOD_Objects[c].prop) :
       /\ f.rootname = leaf.name
       /\ f.totbytes = leaf.totbytes
       /\ f.filebytes = leaf.filebytes
       /\ f.type = type

\* C14 as stated: for every processed Attribute leaf with 'btagging' in its
\* field name whose declared type holds an angle-bracket group without
\* nested brackets, the Field type is the first such group of the declared
\* type, before any stripping, followed by ' *'.
C14_InnerFromDeclaredType ==
  \A i \in 1..Len(elements) :
    \A c \in Prefixes(elements[i].name) :
      (IsBtaggingLeafOf(elements[i], c) /\ HasInnerGroup(elements[i].type)) =>
        FiledWithType(elements[i], c,
                      FirstInnerGroup(elements[i].type) \o sSpaceStar)

\* C14 amended: for every processed Attribute leaf with 'btagging' in its
\* field name whose normalized type (wrapper, 'Aux' and '_v<digits>'
\* stripped) holds an angle-bracket group without nested brackets, the Field
\* type is the first such group of the normalized type followed by ' *'.
C14_InnerFromNormalizedType ==
  \A i \in 1..Len(elements) :
    \A c \in Prefixes(elements[i].name) :
      ( /\ IsBtaggingLeafOf(elements[i], c)
        /\ HasInnerGroup(ClaimedType(elements[i].type)) ) =>
        FiledWithType(elements[i], c,
                      FirstInnerGroup(ClaimedType(elements[i].type)) \o sSpaceStar)

\* 'btaggingLink' leaves were processed whose declared types hold the groups
\* 'xAOD::BTagging_v1' and 'a_v1', filed as 'xAOD::BTagging *' and 'a *'
C14_Witness ==
  /\ pc = "inspect"
  /\ Len(elements) = 2
  /\ elements[1].name = nFooDynBtaggingLink /\ elements[1].type = tBTagLink
  /\ elements[2].name = nFooDynBtaggingLink /\ elements[2].type = tPair
  /\ FirstInnerGroup(tPair) = <<"a","_","v","1">>
  /\ xAOD_Objects[nFoo].prop[1].type =
       <<"x","A","O","D",":",":","B","T","a","g","g","i","n","g"," ","*">>
  /\ xAOD_Objects[nFoo].prop[2].type = <<"a"," ","*">>


(***************************************************************************)
(* The container part of an aux-root name.                                 *)
(***************************************************************************)
\* 'FooAux.bar'
nFooAuxBar == <<"F","o","o","A","u","x",".","b","a","r">>

HasDot(s) == \E i \in 1..Len(s) : s[i] = "."

\* C15 as stated: no container an aux-root leaf was filed under has a '.'
\* in its name, and a processed 'FooAux.barAux.' has not made 'FooAux.bar'
\* a container with an aux-root leaf.
C15_AuxRootHasNoDot ==
  /\ \A c \in DOMAIN xAOD_Objects : xAOD_Objects[c].has_aux => ~HasDot(c)
  /\ (\E i \in 1..Len(elements) : elements[i].name = nFooAuxBarAux) =>
       ~(nFooAuxBar \in DOMAIN xAOD_Objects /\ xAOD_Objects[nFooAuxBar].has_aux)

\* C15 amended: a leaf is classified as AuxRoot exactly when its name ends
\* in 'Aux.': the step of such a leaf changes the one container named by
\* everything before that suffix, dots included, setting has_aux and the
\* rootname, and the step of any other leaf sets has_aux nowhere; so
\* 'FooAux.barAux.' is an AuxRoot of 'FooAux.bar'.
C15_AuxRootBySuffix ==
  [][LeafStep =>
       LET n == el'.name
           k == Len(n) - Len(sAuxDot)
       IN  IF k >= 0 /\ SubSeq(n, k + 1, Len(n)) = sAuxDot
           THEN /\ AsAuxRoot(SubSeq(n, 1, k))
                /\ n = nFooAuxBarAux => xAOD_Objects'[nFooAuxBar].has_aux
           ELSE \A c \in DOMAIN xAOD_Objects' :
                  xAOD_Objects'[c].has_aux =>
                    (c \in DOMAIN xAOD_Objects /\ xAOD_Objects[c].has_aux)]_vars

\* 'FooAux.barAux.' was processed and filed as the aux-root leaf of the
\* container 'FooAux.bar'
C15_Witness ==
  /\ pc = "inspect"
  /\ Len(elements) >= 1
  /\ el.name = nFooAuxBarAux
  /\ nFooAuxBar \in DOMAIN xAOD_Objects
  /\ xAOD_Objects[nFooAuxBar].has_aux
  /\ xAOD_Objects[nFooAuxBar].rootname = nFooAuxBarAux
  /\ nFoo \notin DOMAIN xAOD_Objects


(***************************************************************************)
(* filter_xAOD_objects on a container whose type was never set.            *)
(***************************************************************************)
\* C16: with the default command line (both globs '*', --has_aux off),
\* filter_xAOD_objects returns for every hierarchy inspect_tree has built,
\* and what it returns holds every container of that hierarchy.
C16_DefaultFilterKeepsAll ==
  [][(pc = "filter" /\ args' = DefaultArgs) =>
       /\ pc' = "sizes"
       /\ DOMAIN filtered_xAOD_Objects' = DOMAIN xAOD_Objects]_vars


(***************************************************************************)
(* Fields that make_report could not draw.                                 *)
(***************************************************************************)
\* what the log says of a Field that was not drawn
FailureMessages ==
  {"is an ElementLink type", "has missing values", "couldn't be drawn"}

\* the records of the log of container k that tell of the failure of item
Failures(k, item) ==
  {i \in 1..Len(report.log[k]) :
     /\ report.log[k][i].message \in FailureMessages
     /\ report.log[k][i].container = k
     /\ report.log[k][i].name = item.name
     /\ report.log[k][i].path = item.rootname}

\* once make_report has run, every item of every retained container has
\* been through save_plot, the items that were not drawn included; each
\* item that was not drawn has a record in the log with its container and
\* name, a link type being reported as such, and the log of a container has
\* as many such records as the container has items that were not drawn;
\* 'drawn' counts the others; the run is not aborted
PlotFailuresLogged ==
  /\ pc = "aborted" => ~report.made
  /\ report.made =>
       /\ pc \in {"dump", "done"}
       /\ DOMAIN report.log = DOMAIN filtered_xAOD_Objects
       /\ \A k \in DOMAIN filtered_xAOD_Objects :
            LET items == Children(filtered_xAOD_Objects[k])
                failed == {i \in 1..Len(items) : ~items[i].drawable}
            IN  /\ \A i \in 1..Len(items) : "drawable" \in DOMAIN items[i]
                /\ \A i \in failed :
                     /\ Failures(k, items[i]) # {}
                     /\ Contains(items[i].type, sElementLink) =>
                          \A j \in Failures(k, items[i]) :
                            report.log[k][j].message = "is an ElementLink type"
                /\ Cardinality({j \in 1..Len(report.log[k]) :
                                  report.log[k][j].message \in FailureMessages})
                     = Cardinality(failed)
                /\ filtered_xAOD_Objects[k].drawn = Len(items) - Cardinality(failed)
  /\ pc = "done" => output.written

\* C13: the Fields make_report could not draw are logged with their
\* container and name and do not stop it (PlotFailuresLogged in every
\* state), and every step that is taken by or after make_report leads to the
\* dump or is the dump, which writes the output file.
C13_PlotFailuresAreLogged ==
  /\ []PlotFailuresLogged
  /\ [][report.made' =>
          /\ pc' \in {"dump", "done"}
          /\ pc' = "done" => output'.written]_vars

\* with --prop, the link-typed 'btaggingLink' of 'Foo' was not drawn and
\* logged, 'Pt' after it was drawn, and the output file was written
C13_Witness ==
  /\ pc = "done"
  /\ report.made
  /\ output.written
  /\ nFoo \in DOMAIN filtered_xAOD_Objects
  /\ args.list_properties
  /\ Len(filtered_xAOD_Objects[nFoo].prop) = 2
  /\ filtered_xAOD_Objects[nFoo].prop[1].rootname = nFooAuxBtaggingLink
  /\ ~filtered_xAOD_Objects[nFoo].prop[1].drawable
  /\ filtered_xAOD_Objects[nFoo].prop[2].drawable
  /\ filtered_xAOD_Objects[nFoo].drawn = 1
  /\ Len(report.log[nFoo]) = 1
  /\ report.log[nFoo][1].message = "is an ElementLink type"


(***************************************************************************)
(* The order of the lines dump_pretty writes.                              *)
(***************************************************************************)
\* the positions of the lines of one kind in the text
LinesOf(text, line) == {i \in 1..Len(text) : text[i].line = line}

\* the position of the container line before position i, 0 when i is the
\* first one
ContainerBefore(text, i) ==
  LET before == {j \in LinesOf(text, "container") : j < i}
  IN  IF before = {} THEN 0
      ELSE CHOOSE j \in before : \A m \in before : m <= j

\* the position after the last line of the container whose line is at i:
\* that of the next container line, or the end of the text
ContainerEnd(text, i) ==
  LET after == {j \in LinesOf(text, "container") : j > i}
  IN  IF after = {} THEN Len(text) + 1
      ELSE CHOOSE j \in after : \A m \in after : j <= m

\* the container lines are in ascending order of (lowercased type,
\* lowercased name)
ContainersAscend(text) ==
  \A i \in LinesOf(text, "container"), j \in LinesOf(text, "container") :
    i < j =>
      ~KeyLess(<<Lower(text[j].type), Lower(text[j].name)>>,
               <<Lower(text[i].type), Lower(text[i].name)>>)

\* a type header is written exactly once before each maximal run of
\* container lines of one type, the first run included, and nowhere else
HeaderOncePerRun(text) ==
  \A i \in LinesOf(text, "container") :
    LET prev == ContainerBefore(text, i)
        headers == {h \in LinesOf(text, "type") : prev < h /\ h < i}
    IN  IF prev = 0 \/ text[prev].type # text[i].type
        THEN /\ Cardinality(headers) = 1
             /\ \A h \in headers : text[h].type = text[i].type
        ELSE headers = {}

\* within a container the lines of one kind are in ascending order of
\* lowercased name
FieldsAscend(text, line) ==
  \A c \in LinesOf(text, "container") :
    \A i \in LinesOf(text, line), j \in LinesOf(text, line) :
      (c < i /\ i < j /\ j < ContainerEnd(text, c)) =>
        ~StrLess(Lower(text[j].name), Lower(text[i].name))

\* C11: the text dump_pretty has written has its container lines in
\* ascending order of (lowercased type, lowercased name), a type header
\* exactly once before each maximal run of containers of one type, the
\* first container included, and the property lines and the attribute
\* lines of a container each in ascending order of lowercased name.
C11_PrettyOrder ==
  (pc = "done" /\ args.output_format = "pretty") =>
    /\ ContainersAscend(output.content)
    /\ HeaderOncePerRun(output.content)
    /\ FieldsAscend(output.content, "prop")
    /\ FieldsAscend(output.content, "attr")

=============================================================================
